---- MODULE Spec2Model ----
(***************************************************************************)
(* EasyApply: the AI-service fallback chain of the resume endpoints.       *)
(*                                                                         *)
(* The orchestrator is server/routes.ts (Gemini first), the Gemini         *)
(* adapter is services/gemini.ts (src/unnamed/part_008), the OpenAI        *)
(* adapter is the flag-carrying revision of services/openai.ts             *)
(* (src/unnamed/part_010) that exports checkOpenAIAPIStatus, and the mock  *)
(* generator is services/mockAiService.ts.                                 *)
(*                                                                         *)
(* Spec      the request handlers as interleaved tasks.  A task gives up   *)
(*           control only at an await: while a provider request is in      *)
(*           flight (probeWait, callWait) and between the return of a      *)
(*           probe and the resumption of its caller (probeRet).            *)
(* SpecUpload the same handlers with the upload route added, one request   *)
(*           at a time.                                                    *)
(* SpecData  the data path of one adapter or mock invocation: what the     *)
(*           returned AnalysisResult / JobMatch[] holds for a given        *)
(*           provider response.                                            *)
(* SpecText  the same data path on reply texts, token by token: fences,   *)
(*           JSON.parse, the repair of near-JSON, the field extraction.    *)
(* SpecStatus  GET /api/status called repeatedly under fixed provider      *)
(*           health, next to analyze requests served under that health.    *)
(***************************************************************************)
EXTENDS Integers, Sequences, FiniteSets, TLC

\* Number of request handlers that may be in flight at the same time.
NumTasks == 2

Tasks == 1..NumTasks

VARIABLES
    isGeminiAvailable,  \* part_008:18  module-level flag of the Gemini adapter
    isOpenAIAvailable,  \* part_010:13  module-level flag of the OpenAI adapter
    geminiKey,          \* process.env.GEMINI_API_KEY is set (fixed per process)
    openaiKey,          \* process.env.OPENAI_API_KEY is set (fixed per process)
    task,               \* per handler: position and locals
    lastResponse,       \* the response most recently sent by any handler
    downByCall,         \* history: the last write of isGeminiAvailable was the
                        \* markDown of a failed Gemini task call
    dOp, dIn, dOut      \* SpecData: operation, provider response, returned data

orchVars == <<isGeminiAvailable, isOpenAIAvailable, geminiKey, openaiKey,
              task, lastResponse, downByCall>>
dataVars == <<dOp, dIn, dOut>>
vars == <<isGeminiAvailable, isOpenAIAvailable, geminiKey, openaiKey, task,
          lastResponse, downByCall, dOp, dIn, dOut>>

----------------------------------------------------------------------------
(* Outcomes of one outbound provider request.                              *)

\* checkGeminiAPIStatus: the reply text contains 'online', the reply text
\* does not (or is empty), the request rejects, the request never settles.
GeminiProbeOutcomes == {"online", "unexpected", "error", "hang"}

\* checkOpenAIAPIStatus: the request resolves, rejects with an Error that has
\* a message, or rejects with a value that has no message.  The OpenAI client
\* is built with its defaults (part_010:10), which include a request timeout,
\* so a request that never answers ends as a rejection.
OpenAIProbeOutcomes == {"ok", "error", "errorNoMsg"}

\* Without OPENAI_API_KEY no request to OpenAI succeeds (the client is built
\* once, with the key the environment has: part_010:10).
OpenAICanAnswer(p, o) == (p = "openai" /\ o = "ok") => openaiKey

\* A task call: usable JSON of the expected shape, empty or absent content,
\* text that is not JSON, a rejection, or (Gemini) a request that never
\* settles.
GeminiCallOutcomes == {"ok", "empty", "malformed", "error", "hang"}
OpenAICallOutcomes == {"ok", "empty", "malformed", "error"}

Flag(p) == IF p = "gemini" THEN isGeminiAvailable ELSE isOpenAIAvailable

\* A handler that is not running.  pc: idle | probeWait | probeRet | callWait |
\* extractRet | hung.  phase 0 is the text extraction stage of the upload
\* route, phase 1 the first try block of the analysis (or matching), phase 2
\* the try block inside catch (aiError).  prov/ctx: the provider of the request in flight and
\* who awaits it (the route or the adapter).  st: the value the probe returned
\* to its caller.  serviceUsed: the route's local of that name.
\* gProbe, oBad, anyOk, startDown are history fields: the result of the route's
\* own Gemini probe, whether some OpenAI request of this task failed, whether
\* some request of this task succeeded, and downByCall at the start.
\* emptyText: the resumeText of the request body is the empty string.
\* extraction: the upload route's local textExtractionSource once the text is
\* extracted; extractedBy: who computed that text.
\* aProbes, aCalls: history, the probe requests and the task requests sent to
\* the provider by the adapter invocation this handler made last.
\* inFlight: the providers that hold a request of this handler which has not
\* settled.
\* userId: the upload carries a userId that makes a valid resume record;
\* saved: history, this handler has written a resume to storage.
IdleTask ==
    [pc |-> "idle", kind |-> "none", phase |-> 0, prov |-> "none",
     ctx |-> "none", st |-> "none", serviceUsed |-> "none",
     gProbe |-> "none", oBad |-> FALSE, anyOk |-> FALSE, startDown |-> FALSE,
     emptyText |-> FALSE, extraction |-> "none", extractedBy |-> "none",
     aProbes |-> 0, aCalls |-> 0, inFlight |-> {},
     userId |-> FALSE, saved |-> FALSE]

\* No response sent yet.  producer names who computed the data of the
\* response: a provider's reply ("gemini", "openai"), the mock generator
\* called by the route ("routeMock") or by an adapter ("adapterMock").
\* gCall / oCall: the outcome of the task call this handler made to Gemini /
\* OpenAI ("none" when it made none).  extraction / extractedBy: the
\* services.extraction tag of an upload response and who computed the text.
NoResponse ==
    [status |-> 0, valid |-> FALSE, service |-> "none", notice |-> FALSE,
     producer |-> "none", kind |-> "none", gProbe |-> "none",
     gCall |-> "none", oCall |-> "none",
     oBad |-> FALSE, anyOk |-> FALSE, startDown |-> FALSE,
     emptyText |-> FALSE, extraction |-> "none", extractedBy |-> "none",
     aProbes |-> 0, aCalls |-> 0, saved |-> FALSE]

Init ==
    /\ isGeminiAvailable = TRUE
    /\ isOpenAIAvailable = TRUE
    /\ geminiKey \in BOOLEAN
    /\ openaiKey \in BOOLEAN
    /\ task = [t \in Tasks |-> IdleTask]
    /\ lastResponse = NoResponse
    /\ downByCall = FALSE
    /\ dOp = "none" /\ dIn = "none" /\ dOut = "none"

\* History bookkeeping for one finished probe of provider p awaited by c.
NoteProbe(tr, p, c, ok) ==
    [tr EXCEPT !.gProbe = IF p = "gemini" /\ c = "route"
                          THEN (IF ok THEN "ok" ELSE "failed") ELSE @,
               !.oBad = @ \/ (p = "openai" /\ ~ok),
               !.anyOk = @ \/ ok]

\* Respond gone wrong: the notice of an upload looks at the analysis source
\* only.
RespondNoticeForAnalysisOnly(t, tr, status, service, notice, producer, gCall, oCall) ==
    /\ lastResponse' =
          [status |-> status, valid |-> TRUE, service |-> service,
           notice |-> notice,
           producer |-> producer, kind |-> tr.kind,
           gProbe |-> tr.gProbe, gCall |-> gCall, oCall |-> oCall,
           oBad |-> tr.oBad, anyOk |-> tr.anyOk, startDown |-> tr.startDown,
           emptyText |-> tr.emptyText, extraction |-> tr.extraction,
           extractedBy |-> tr.extractedBy,
           aProbes |-> tr.aProbes, aCalls |-> tr.aCalls,
           saved |-> tr.saved]
    /\ task' = [task EXCEPT ![t] = IdleTask]

\* res.status(..).json(..): the handler sends its response and ends.  The
\* upload route adds the notice also when the text extraction was tagged
\* "mock".
Respond(t, tr, status, service, notice, producer, gCall, oCall) ==
    /\ lastResponse' =
          [status |-> status, valid |-> TRUE, service |-> service,
           notice |-> notice \/ (status = 200 /\ tr.extraction = "mock"),
           producer |-> producer, kind |-> tr.kind,
           gProbe |-> tr.gProbe, gCall |-> gCall, oCall |-> oCall,
           oBad |-> tr.oBad, anyOk |-> tr.anyOk, startDown |-> tr.startDown,
           emptyText |-> tr.emptyText, extraction |-> tr.extraction,
           extractedBy |-> tr.extractedBy,
           aProbes |-> tr.aProbes, aCalls |-> tr.aCalls,
           saved |-> tr.saved]
    /\ task' = [task EXCEPT ![t] = IdleTask]

\* RespondRouteMock gone wrong: the mock data is sent but serviceUsed is not
\* set to "mock", so the tag stays and the notice is left out.
RespondRouteMockKeepsTag(t, tr) ==
    Respond(t, tr, 200, tr.serviceUsed, FALSE, "routeMock", "none", "none")

\* The route's own mock tier: generateMock*(..), serviceUsed = "mock", and
\* the response with the notice.
RespondRouteMock(t, tr) ==
    Respond(t, tr, 200, "mock", TRUE, "routeMock", "none", "none")

\* CatchFallbackError gone wrong: the last catch block rethrows, so the outer
\* catch answers 500.
CatchFallbackErrorRethrows(t, tr) ==
    Respond(t, tr, 500, "none", FALSE, "none", "none", "none")

\* catch (fallbackError): mock as last resort, service "mock" with a notice.
CatchFallbackError(t, tr) ==
    Respond(t, tr, 200, "mock", TRUE, "routeMock", "none", "none")

\* The text extraction stage of the upload route ends: resumeText holds the
\* text computed by producer and textExtractionSource holds source.  The route
\* goes on after the await of the extraction.
ExtractionDone(t, tr, source, producer) ==
    /\ task' = [task EXCEPT ![t] =
          [tr EXCEPT !.pc = "extractRet", !.extraction = source,
                     !.extractedBy = producer]]
    /\ UNCHANGED lastResponse

\* RespondAdapter gone wrong: an adapter whose task request failed sends it
\* once more before it gives up.
RespondAdapterRetriesOnce(t, tr, p, producer, gCall, oCall) ==
    LET serviceUsed == IF p = "gemini" /\ tr.phase = 1 THEN tr.serviceUsed
                       ELSE p
    IN  IF tr.pc = "callWait" /\ producer = "adapterMock" /\ tr.aCalls < 2
        THEN /\ task' = [task EXCEPT ![t] = [tr EXCEPT !.aCalls = @ + 1]]
             /\ UNCHANGED lastResponse
        ELSE IF tr.phase = 0
        THEN ExtractionDone(t, tr, p, producer)
        ELSE Respond(t, tr, 200, serviceUsed, serviceUsed = "mock", producer,
                     gCall, oCall)

\* An adapter returns a value to the route.  From extractTextFromResume the
\* route takes the text and sets textExtractionSource = "openai".  Otherwise
\* the route puts the value in the response under the adapter's tag: in the
\* first try block serviceUsed keeps its initial value after the Gemini
\* adapter, everywhere else the route assigns the adapter's name.  The notice
\* is present only for serviceUsed === "mock".
RespondAdapter(t, tr, p, producer, gCall, oCall) ==
    LET serviceUsed == IF p = "gemini" /\ tr.phase = 1 THEN tr.serviceUsed
                       ELSE p
    IN  IF tr.phase = 0
        THEN ExtractionDone(t, tr, p, producer)
        ELSE Respond(t, tr, 200, serviceUsed, serviceUsed = "mock", producer,
                     gCall, oCall)

\* EnterProbe gone wrong: the Gemini probe sends its request without looking
\* for the key.
EnterProbeSendsWithoutKey(t, tr, p, c) ==
    /\ task' = [task EXCEPT ![t] =
          [tr EXCEPT !.pc = "probeWait", !.prov = p, !.ctx = c, !.st = "none",
                     !.aProbes = IF c = "adapter" THEN @ + 1 ELSE @,
                     !.inFlight = @ \cup {p}]]
    /\ UNCHANGED <<isGeminiAvailable, isOpenAIAvailable, downByCall,
                   lastResponse>>

\* A call of checkGeminiAPIStatus / checkOpenAIAPIStatus by c, up to its first
\* await.  Without GEMINI_API_KEY the Gemini probe marks the flag down and
\* returns at once, with no request; otherwise the request is sent.
EnterProbe(t, tr, p, c) ==
    IF p = "gemini" /\ ~geminiKey
    THEN /\ isGeminiAvailable' = FALSE
         /\ downByCall' = FALSE
         /\ task' = [task EXCEPT ![t] =
               [NoteProbe(tr, p, c, FALSE) EXCEPT
                  !.pc = "probeRet", !.prov = p, !.ctx = c, !.st = "invalid"]]
         /\ UNCHANGED <<isOpenAIAvailable, lastResponse>>
    ELSE /\ task' = [task EXCEPT ![t] =
               [tr EXCEPT !.pc = "probeWait", !.prov = p, !.ctx = c,
                          !.st = "none",
                          !.aProbes = IF c = "adapter" THEN @ + 1 ELSE @,
                          !.inFlight = @ \cup {p}]]
         /\ UNCHANGED <<isGeminiAvailable, isOpenAIAvailable, downByCall,
                        lastResponse>>

\* Entry of an adapter (analyzeResumeWithGemini, findJobMatchesWithGemini,
\* analyzeResume, findJobMatches, extractTextFromResume): with the flag down it returns mock data,
\* otherwise it probes the provider once more.
EnterAdapter(t, tr, p) ==
    LET tr0 == [tr EXCEPT !.aProbes = 0, !.aCalls = 0]
    IN  IF ~Flag(p)
        THEN /\ RespondAdapter(t, tr0, p, "adapterMock", "none", "none")
             /\ UNCHANGED <<isGeminiAvailable, isOpenAIAvailable, downByCall>>
        ELSE EnterProbe(t, tr0, p, "adapter")

----------------------------------------------------------------------------
(* The handlers of POST /api/resume/analyze, /api/resume/job-matches and   *)
(* /api/resume/upload                                                      *)

\* The routes whose handlers run concurrently in Spec, and all the routes of
\* SpecUpload.
Kinds == {"analyze", "match"}
UploadKinds == {"analyze", "match", "upload"}

\* The request bodies tried: resumeText missing, the empty string, one
\* character, a long text; with and without jobDescription; with and without
\* an uploaded file; with and without a userId that insertResumeSchema
\* accepts.
RequestBodies ==
    [hasResumeText : BOOLEAN, textLength : {0, 1, 5000},
     hasJobDescription : BOOLEAN, hasFile : BOOLEAN, hasUserId : BOOLEAN]

\* resumeAnalysisRequestSchema gone wrong: z.string() without min(1).
resumeAnalysisRequestSchemaAllowsEmpty(body) ==
    body.hasResumeText /\ body.textLength >= 0

\* resumeAnalysisRequestSchema.safeParse(..).success: resumeText is
\* z.string().min(1), jobDescription is optional.
resumeAnalysisRequestSchema(body) ==
    body.hasResumeText /\ body.textLength >= 1

\* jobMatchingRequestSchema.safeParse(..).success.
jobMatchingRequestSchema(body) ==
    body.hasResumeText /\ body.textLength >= 1

\* The route's check of the request: the zod schema of the route, or the
\* presence of req.file for an upload.
SchemaAccepts(k, body) ==
    IF k = "analyze" THEN resumeAnalysisRequestSchema(body)
    ELSE IF k = "match" THEN jobMatchingRequestSchema(body)
    ELSE body.hasFile

EmptyText(k, body) ==
    k # "upload" /\ body.hasResumeText /\ body.textLength = 0

\* The request passes the route's check; the route sets serviceUsed (for an
\* upload: textExtractionSource) to "gemini" and calls checkGeminiAPIStatus.
Start(t, k) ==
    /\ task[t].pc = "idle"
    /\ \E body \in RequestBodies :
          /\ SchemaAccepts(k, body)
          /\ EnterProbe(t, [IdleTask EXCEPT
                               !.kind = k,
                               !.phase = IF k = "upload" THEN 0 ELSE 1,
                               !.serviceUsed = "gemini",
                               !.startDown = downByCall,
                               !.emptyText = EmptyText(k, body),
                               !.userId = (k = "upload" /\ body.hasUserId)],
                        "gemini", "route")
    /\ UNCHANGED <<geminiKey, openaiKey, dataVars>>

\* RejectInvalid gone wrong: the route has probed Gemini, in vain, before it
\* looks at the request.
RejectInvalidAfterProbe(t, k) ==
    /\ task[t].pc = "idle"
    /\ \E body \in RequestBodies :
          /\ ~SchemaAccepts(k, body)
          /\ lastResponse' = [NoResponse EXCEPT
                                 !.status = 400, !.kind = k,
                                 !.emptyText = EmptyText(k, body)]
    /\ isGeminiAvailable' = FALSE
    /\ UNCHANGED <<isOpenAIAvailable, geminiKey, openaiKey, task, downByCall,
                   dataVars>>

\* The request fails the route's check: 400, nothing else happens.
RejectInvalid(t, k) ==
    /\ task[t].pc = "idle"
    /\ \E body \in RequestBodies :
          /\ ~SchemaAccepts(k, body)
          /\ lastResponse' = [NoResponse EXCEPT
                                 !.status = 400, !.kind = k,
                                 !.emptyText = EmptyText(k, body)]
    /\ UNCHANGED <<isGeminiAvailable, isOpenAIAvailable, geminiKey, openaiKey,
                   task, downByCall, dataVars>>

\* What the Gemini probe makes of the reply: valid only for a reply whose text
\* contains 'online'.
GeminiProbeValid(o) == o = "online"

\* What the OpenAI probe makes of the reply: valid when the request resolved.
OpenAIProbeValid(o) == o = "ok"

\* The value a probe hands to its caller.  The OpenAI probe's catch block
\* evaluates error.message.includes(..), which throws when the rejection value
\* has no message: the probe then raises instead of returning a status.
ProbeResult(p, o) ==
    IF p = "gemini"
    THEN (IF GeminiProbeValid(o) THEN "valid" ELSE "invalid")
    ELSE (IF OpenAIProbeValid(o) THEN "valid"
          ELSE IF o = "errorNoMsg" THEN "raised" ELSE "invalid")

\* ProbeFlag gone wrong: the Gemini probe does not mark the flag down for a
\* reply without 'online'.
ProbeFlagIgnoresUnexpected(p, o) ==
    IF p = "gemini" THEN o \in {"online", "unexpected"} ELSE o = "ok"

\* The flag a probe leaves behind: up when the probe is valid, down otherwise.
ProbeFlag(p, o) ==
    IF p = "gemini" THEN GeminiProbeValid(o) ELSE OpenAIProbeValid(o)

\* The probe's request settles with outcome o: the probe writes its flag and
\* returns (or raises) to its caller, which resumes in a later step.
ProbeReturn(t, o) ==
    LET tr == task[t]
        p == tr.prov
    IN  /\ tr.pc = "probeWait"
        /\ o \in (IF p = "gemini" THEN GeminiProbeOutcomes \ {"hang"}
                                  ELSE OpenAIProbeOutcomes)
        /\ OpenAICanAnswer(p, o)
        /\ IF p = "gemini"
           THEN /\ isGeminiAvailable' = ProbeFlag(p, o)
                /\ downByCall' = FALSE
                /\ UNCHANGED isOpenAIAvailable
           ELSE /\ isOpenAIAvailable' = ProbeFlag(p, o)
                /\ UNCHANGED <<isGeminiAvailable, downByCall>>
        /\ task' = [task EXCEPT ![t] =
              [NoteProbe(tr, p, tr.ctx, ProbeResult(p, o) = "valid") EXCEPT
                 !.pc = "probeRet", !.st = ProbeResult(p, o),
                 !.inFlight = @ \ {p}]]
        /\ UNCHANGED <<geminiKey, openaiKey, lastResponse, dataVars>>

\* A Gemini request (generateContent, sent without a timeout or an abort
\* signal) never settles: the await never resumes.
RequestHangs(t) ==
    /\ task[t].pc \in {"probeWait", "callWait"}
    /\ task[t].prov = "gemini"
    /\ task' = [task EXCEPT ![t].pc = "hung"]
    /\ UNCHANGED <<isGeminiAvailable, isOpenAIAvailable, geminiKey, openaiKey,
                   lastResponse, downByCall, dataVars>>

\* catch (aiError) of the route: the fallback try block, chosen by the value
\* serviceUsed has when the exception arrives.
CatchAiError(t, tr) ==
    LET tr2 == [tr EXCEPT !.phase = 2]
    IN  IF tr.serviceUsed = "gemini"
        THEN EnterProbe(t, tr2, "openai", "route")
        ELSE IF tr.serviceUsed = "openai"
        THEN EnterProbe(t, tr2, "gemini", "route")
        ELSE /\ RespondRouteMock(t, tr2)
             /\ UNCHANGED <<isGeminiAvailable, isOpenAIAvailable, downByCall>>

\* RouteAfterGeminiProbe gone wrong: the route calls the Gemini adapter
\* without looking at geminiStatus.isValid.
RouteAfterGeminiProbeIgnoresStatus(t) ==
    LET tr == task[t]
    IN  /\ tr.pc = "probeRet" /\ tr.ctx = "route" /\ tr.prov = "gemini"
        /\ EnterAdapter(t, tr, "gemini")
        /\ UNCHANGED <<geminiKey, openaiKey, dataVars>>

\* The route resumes after its own checkGeminiAPIStatus.  Valid: it calls the
\* Gemini adapter (for the text extraction: extractTextFromResumeWithGemini,
\* which returns the mock text without any request, tagged "mock").  Not valid:
\* analyze and upload probe OpenAI, job-matches goes straight to the mock
\* generator.
RouteAfterGeminiProbe(t) ==
    LET tr == task[t]
    IN  /\ tr.pc = "probeRet" /\ tr.ctx = "route" /\ tr.prov = "gemini"
        /\ IF tr.st = "valid" /\ tr.phase = 0
           THEN /\ ExtractionDone(t, tr, "mock", "adapterMock")
                /\ UNCHANGED <<isGeminiAvailable, isOpenAIAvailable,
                               downByCall>>
           ELSE IF tr.st = "valid"
           THEN EnterAdapter(t, tr, "gemini")
           ELSE IF tr.kind \in {"analyze", "upload"} /\ tr.phase \in {0, 1}
           THEN EnterProbe(t, tr, "openai", "route")
           ELSE /\ RespondRouteMock(t, tr)
                /\ UNCHANGED <<isGeminiAvailable, isOpenAIAvailable,
                               downByCall>>
        /\ UNCHANGED <<geminiKey, openaiKey, dataVars>>

\* The route resumes after its own checkOpenAIAPIStatus.  Valid: it calls the
\* OpenAI adapter.  Not valid: the mock generator.  Raised: the enclosing
\* catch block runs, catch (extractError) in the extraction stage (mock text),
\* catch (aiError) in the first try block and catch (fallbackError) in the
\* second.
RouteAfterOpenAIProbe(t) ==
    LET tr == task[t]
    IN  /\ tr.pc = "probeRet" /\ tr.ctx = "route" /\ tr.prov = "openai"
        /\ IF tr.st = "valid"
           THEN EnterAdapter(t, tr, "openai")
           ELSE IF tr.phase = 0
           THEN /\ ExtractionDone(t, tr, "mock", "routeMock")
                /\ UNCHANGED <<isGeminiAvailable, isOpenAIAvailable,
                               downByCall>>
           ELSE IF tr.st = "invalid"
           THEN /\ RespondRouteMock(t, tr)
                /\ UNCHANGED <<isGeminiAvailable, isOpenAIAvailable,
                               downByCall>>
           ELSE IF tr.phase = 1
           THEN CatchAiError(t, tr)
           ELSE /\ CatchFallbackError(t, tr)
                /\ UNCHANGED <<isGeminiAvailable, isOpenAIAvailable,
                               downByCall>>
        /\ UNCHANGED <<geminiKey, openaiKey, dataVars>>

\* AdapterAfterProbe gone wrong: the adapter sends the task request without
\* looking at the status its probe returned.
AdapterAfterProbeIgnoresStatus(t) ==
    LET tr == task[t]
        p == tr.prov
    IN  /\ tr.pc = "probeRet" /\ tr.ctx = "adapter"
        /\ task' = [task EXCEPT ![t].pc = "callWait",
                                ![t].aCalls = @ + 1,
                                ![t].inFlight = @ \cup {p}]
        /\ UNCHANGED <<isGeminiAvailable, isOpenAIAvailable, downByCall,
                       lastResponse, geminiKey, openaiKey, dataVars>>

\* The adapter resumes after its own probe.  Valid: it sends the task request
\* (the Gemini adapter first builds its client again and throws into its own
\* catch block when the key is missing).  Not valid, or the probe raised: it
\* returns mock data to the route.
AdapterAfterProbe(t) ==
    LET tr == task[t]
        p == tr.prov
    IN  /\ tr.pc = "probeRet" /\ tr.ctx = "adapter"
        /\ IF tr.st = "valid"
           THEN IF p = "gemini" /\ ~geminiKey
                THEN /\ isGeminiAvailable' = FALSE
                     /\ downByCall' = TRUE
                     /\ UNCHANGED isOpenAIAvailable
                     /\ RespondAdapter(t, tr, p, "adapterMock", "none", "none")
                ELSE /\ task' = [task EXCEPT ![t].pc = "callWait",
                                             ![t].aCalls = @ + 1,
                                             ![t].inFlight = @ \cup {p}]
                     /\ UNCHANGED <<isGeminiAvailable, isOpenAIAvailable,
                                    downByCall, lastResponse>>
           ELSE /\ RespondAdapter(t, tr, p, "adapterMock", "none", "none")
                /\ UNCHANGED <<isGeminiAvailable, isOpenAIAvailable,
                               downByCall>>
        /\ UNCHANGED <<geminiKey, openaiKey, dataVars>>

\* Whether the adapter takes the reply of its task request as a result.
\*   analyzeResumeWithGemini   any reply text: the field extraction by regular
\*                             expressions cannot throw, absent fields stay 0
\*   findJobMatchesWithGemini  only text that parses to a jobs object, an
\*                             array or a single job
\*   analyzeResume (OpenAI)    JSON text, and empty content (read as '{}')
\*   findJobMatches (OpenAI)   only JSON text with a jobs array
\*   extractTextFromResume    any reply with non-empty content
\* A rejected request is never a result.
CallAccepted(p, k, o) ==
    IF p = "gemini"
    THEN (IF k = "analyze" THEN o \in {"ok", "empty", "malformed"}
                           ELSE o = "ok")
    ELSE (IF k = "analyze" THEN o \in {"ok", "empty"}
          ELSE IF k = "extract" THEN o \in {"ok", "malformed"}
          ELSE o = "ok")

\* The operation a handler asks of an adapter at its current stage.
OpKind(tr) ==
    IF tr.kind = "upload"
    THEN (IF tr.phase = 0 THEN "extract" ELSE "analyze")
    ELSE tr.kind

\* The data an adapter returns once its task request has settled: the
\* provider's, or the mock generator's from its own catch block.
AdapterReturns(p, k, o) ==
    IF CallAccepted(p, k, o) THEN p ELSE "adapterMock"

\* The flag an adapter leaves behind once its task request has settled.
CallFlag(p, k, o) == CallAccepted(p, k, o)

\* The task request settles with outcome o: the adapter normalizes the reply,
\* writes its flag and returns to the route, which sends the response (or, in
\* the extraction stage, keeps the text).
CallReturn(t, o) ==
    LET tr == task[t]
        p == tr.prov
        tr2 == [tr EXCEPT !.anyOk = @ \/ (o = "ok"),
                          !.oBad = @ \/ (p = "openai" /\ o # "ok"),
                          !.inFlight = @ \ {p}]
    IN  /\ tr.pc = "callWait"
        /\ o \in (IF p = "gemini" THEN GeminiCallOutcomes \ {"hang"}
                                  ELSE OpenAICallOutcomes)
        /\ OpenAICanAnswer(p, o)
        /\ IF p = "gemini"
           THEN /\ isGeminiAvailable' = CallFlag(p, OpKind(tr), o)
                /\ downByCall' = ~CallFlag(p, OpKind(tr), o)
                /\ UNCHANGED isOpenAIAvailable
           ELSE /\ isOpenAIAvailable' = CallFlag(p, OpKind(tr), o)
                /\ UNCHANGED <<isGeminiAvailable, downByCall>>
        /\ RespondAdapter(t, tr2, p, AdapterReturns(p, OpKind(tr), o),
                          IF p = "gemini" THEN o ELSE "none",
                          IF p = "openai" THEN o ELSE "none")
        /\ UNCHANGED <<geminiKey, openaiKey, dataVars>>

\* The upload route resumes after the text extraction: it saves the resume
\* when the request names a user, then starts the analysis stage with
\* analysisSource = "gemini" and calls checkGeminiAPIStatus.
RouteAfterExtraction(t) ==
    LET tr == task[t]
    IN  /\ tr.pc = "extractRet"
        /\ EnterProbe(t, [tr EXCEPT !.phase = 1, !.serviceUsed = "gemini",
                                    !.saved = tr.userId],
                      "gemini", "route")
        /\ UNCHANGED <<geminiKey, openaiKey, dataVars>>

Next ==
    \/ \E t \in Tasks, k \in Kinds : Start(t, k)
    \/ \E t \in Tasks, k \in Kinds : RejectInvalid(t, k)
    \/ \E t \in Tasks, o \in GeminiProbeOutcomes \cup OpenAIProbeOutcomes :
          ProbeReturn(t, o)
    \/ \E t \in Tasks : RequestHangs(t)
    \/ \E t \in Tasks : RouteAfterGeminiProbe(t)
    \/ \E t \in Tasks : RouteAfterOpenAIProbe(t)
    \/ \E t \in Tasks : AdapterAfterProbe(t)
    \/ \E t \in Tasks, o \in GeminiCallOutcomes \cup OpenAICallOutcomes :
          CallReturn(t, o)

Spec == Init /\ [][Next]_vars

\* SpecUpload: the three routes, upload included, with one handler running at
\* a time (requests arrive one after the other).
UploadTasks == {1}

UploadNext ==
    \/ \E t \in UploadTasks, k \in UploadKinds : Start(t, k)
    \/ \E t \in UploadTasks, k \in UploadKinds : RejectInvalid(t, k)
    \/ \E t \in UploadTasks,
          o \in GeminiProbeOutcomes \cup OpenAIProbeOutcomes : ProbeReturn(t, o)
    \/ \E t \in UploadTasks : RequestHangs(t)
    \/ \E t \in UploadTasks : RouteAfterGeminiProbe(t)
    \/ \E t \in UploadTasks : RouteAfterOpenAIProbe(t)
    \/ \E t \in UploadTasks : AdapterAfterProbe(t)
    \/ \E t \in UploadTasks,
          o \in GeminiCallOutcomes \cup OpenAICallOutcomes : CallReturn(t, o)
    \/ \E t \in UploadTasks : RouteAfterExtraction(t)

SpecUpload == Init /\ [][UploadNext]_vars

----------------------------------------------------------------------------
(* The data path (SpecData): what an adapter or the mock generator returns *)

\* Longest recommendations list a provider reply carries in the model.
MaxRecs == 8

\* Most jobs a provider reply carries in the model.
MaxJobs == 2

\* A JSON member of a reply: absent, or a number.
Absent == [t |-> "absent", n |-> 0]
Num(n) == [t |-> "num", n |-> n]

\* The numbers a reply may give for a score: negative, zero, in range, the
\* upper end, above the range.
ScoreNumbers == {0 - 5, 0, 72, 100, 150}
ScoreValues == {Absent} \cup {Num(n) : n \in ScoreNumbers}

ScoreFields ==
    {"overallScore", "atsCompatibility", "keywordOptimization",
     "experienceRelevance"}

\* A reply to the analysis prompt that is a well-formed JSON object, free of
\* code fences: cleanGeminiResponse returns such text as it is.  The member
\* named f has value v, its snake_case alias has value a, the other three
\* scores are 72 under their camelCase names, and recommendations is a list of
\* n plain strings (numbered here) or is absent.
AnalysisReply(f, v, a, n, hasRecs) ==
    [overallScore |-> IF f = "overallScore" THEN v ELSE Num(72),
     overall_score |-> IF f = "overallScore" THEN a ELSE Absent,
     atsCompatibility |-> IF f = "atsCompatibility" THEN v ELSE Num(72),
     ats_compatibility |-> IF f = "atsCompatibility" THEN a ELSE Absent,
     keywordOptimization |-> IF f = "keywordOptimization" THEN v ELSE Num(72),
     keyword_optimization |-> IF f = "keywordOptimization" THEN a ELSE Absent,
     experienceRelevance |-> IF f = "experienceRelevance" THEN v ELSE Num(72),
     experience_relevance |-> IF f = "experienceRelevance" THEN a ELSE Absent,
     hasRecommendations |-> hasRecs,
     recommendations |-> IF hasRecs THEN [i \in 1..n |-> i] ELSE <<>>]

AnalysisReplies ==
    {AnalysisReply(f, v, a, n, h) :
        f \in ScoreFields, v \in ScoreValues, a \in ScoreValues,
        n \in 0..MaxRecs, h \in {TRUE}}
    \cup {AnalysisReply(f, v, a, 0, FALSE) :
        f \in ScoreFields, v \in ScoreValues, a \in ScoreValues}

\* content.match(/"<name>"\s*:\s*(\d+)/) and parseInt: the digits that follow
\* the quoted camelCase name.  A member that is absent, or whose number starts
\* with a minus sign, gives no match and the field keeps its initial 0.
RegexScore(v) == IF v.t = "num" /\ v.n >= 0 THEN v.n ELSE 0

\* content.match(/"recommendations"\s*:\s*\[([\s\S]*?)\]/) and the split on
\* '", "': one entry per string of the list; an absent or empty list leaves
\* the initial [].
RegexRecommendations(doc) ==
    IF doc.hasRecommendations /\ Len(doc.recommendations) > 0
    THEN doc.recommendations ELSE <<>>

\* analyzeResumeWithGemini: the result built from the cleaned reply text.
analyzeResumeWithGemini(doc) ==
    [overallScore |-> RegexScore(doc.overallScore),
     atsCompatibility |-> RegexScore(doc.atsCompatibility),
     keywordOptimization |-> RegexScore(doc.keywordOptimization),
     experienceRelevance |-> RegexScore(doc.experienceRelevance),
     recommendations |-> RegexRecommendations(doc)]

\* JavaScript  v || a || 0  on two possibly absent numbers.
OrElse(v, a) ==
    IF v.t = "num" /\ v.n # 0 THEN v.n
    ELSE IF a.t = "num" /\ a.n # 0 THEN a.n
    ELSE 0

\* analyzeResume (OpenAI): the result built from JSON.parse of the reply.
analyzeResume(doc) ==
    [overallScore |-> OrElse(doc.overallScore, doc.overall_score),
     atsCompatibility |-> OrElse(doc.atsCompatibility, doc.ats_compatibility),
     keywordOptimization |->
         OrElse(doc.keywordOptimization, doc.keyword_optimization),
     experienceRelevance |->
         OrElse(doc.experienceRelevance, doc.experience_relevance),
     recommendations |->
         IF doc.hasRecommendations THEN doc.recommendations ELSE <<>>]

\* Math.random() takes a value u/1000 with u in RandomSamples: the least value,
\* a middle one, and the greatest below 1.
RandomSamples == {0, 500, 999}

\* Math.floor(Math.random() * n) for the sample u.
FloorRandom(u, n) == (u * n) \div 1000

Min(a, b) == IF a < b THEN a ELSE b
Max(a, b) == IF a > b THEN a ELSE b

\* randomVariance(min, max) of generateMockResumeAnalysis.
randomVariance(u, min, max) == FloorRandom(u, max - min + 1) + min

\* Lengths of resumeText tried: empty, short, and on both sides of the clamp
\* of the base score.
TextLengths == {0, 1, 5000, 7500, 20000}

\* generateMockResumeAnalysis for a text of the given length, with the four
\* draws of Math.random() in the order of the source.
generateMockResumeAnalysis(textLength, hasJobDescription, u1, u2, u3, u4) ==
    LET baseScore == Min(75, Max(40, textLength \div 100))
        recommendations ==
            IF hasJobDescription THEN [i \in 1..7 |-> i] ELSE [i \in 1..5 |-> i]
    IN  [overallScore |-> baseScore + randomVariance(u1, 0 - 5, 10),
         atsCompatibility |-> baseScore + randomVariance(u2, 0 - 10, 15),
         keywordOptimization |-> baseScore + randomVariance(u3, 0 - 8, 12),
         experienceRelevance |-> baseScore + randomVariance(u4, 0 - 7, 13),
         recommendations |-> SubSeq(recommendations, 1, 5)]

\* Job ids: <<"job", n>> is the string job-<n>, <<"mock-job", n>> the string
\* mock-job-<n>, <<"id", n>> some other string, NoId an absent or empty id.
NoId == <<"", 0>>
ReplyIds == {NoId, <<"id", 1>>, <<"job", 2>>}

\* One job object of a reply to the matching prompt.
ReplyJobs ==
    [id : ReplyIds, matchScore : ScoreValues, match_score : {Absent, Num(88)}]

ReplyJobLists ==
    UNION {[1..n -> ReplyJobs] : n \in 0..MaxJobs}

\* job.id || `job-${index + 1}`
JobId(job, index) == IF job.id # NoId THEN job.id ELSE <<"job", index + 1>>

\* The object both adapters build for the job at (1-based) position i.
MapJob(job, i) ==
    [id |-> JobId(job, i - 1),
     matchScore |-> OrElse(job.matchScore, job.match_score)]

\* findJobMatchesWithGemini on a reply that parses: shape "jobs" is an object
\* with a jobs array, "array" a bare array of jobs, "single" one job object
\* with title and company.
findJobMatchesWithGemini(shape, jobs) ==
    IF shape \in {"jobs", "array"}
    THEN [i \in 1..Len(jobs) |-> MapJob(jobs[i], i)]
    ELSE <<[id |-> IF jobs[1].id # NoId THEN jobs[1].id ELSE <<"job", 1>>,
            matchScore |-> OrElse(jobs[1].matchScore, jobs[1].match_score)]>>

\* findJobMatches (OpenAI) on a reply that parses to an object with a jobs
\* array.
findJobMatches(jobs) ==
    [i \in 1..Len(jobs) |-> MapJob(jobs[i], i)]

\* The clock: a call time in hours since the epoch (UTC), early and late in
\* the day, and the hours by which a daylight-saving change between the two
\* dates moves the instant that setDate, working in local time, arrives at.
CallTimes == {100 * 24, 100 * 24 + 23}
DstShifts == {0 - 1, 0, 1}

\* getRandomRecentDate gone wrong: the days are added.
getRandomRecentDateAhead(now, u, dst) ==
    (now + FloorRandom(u, 30) * 24) \div 24

\* getRandomRecentDate: now.setDate(now.getDate() - daysAgo) and the date part
\* of toISOString(), as a day number (UTC).
getRandomRecentDate(now, u, dst) ==
    LET daysAgo == FloorRandom(u, 30)
    IN  (now - daysAgo * 24 + (IF daysAgo = 0 THEN 0 ELSE dst)) \div 24

\* generateMockJobMatches: five jobs; us[i] is the draw for the match score of
\* job i and ds[i] the draw for its posted date.
generateMockJobMatches(us, ds, now, dst) ==
    [i \in 1..5 |->
        [id |-> <<"mock-job", i>>,
         matchScore |-> FloorRandom(us[i], 31) + 65,
         daysAgo |-> FloorRandom(ds[i], 30),
         postedDate |-> getRandomRecentDate(now, ds[i], dst)]]

\* One invocation per behaviour: nothing has been called yet.
DataInit ==
    /\ isGeminiAvailable = TRUE
    /\ isOpenAIAvailable = TRUE
    /\ geminiKey = TRUE
    /\ openaiKey = TRUE
    /\ task = [t \in Tasks |-> IdleTask]
    /\ lastResponse = NoResponse
    /\ downByCall = FALSE
    /\ dOp = "none" /\ dIn = "none" /\ dOut = "none"

GeminiAnalyzeData ==
    /\ dOp = "none"
    /\ \E doc \in AnalysisReplies :
          /\ dIn' = doc
          /\ dOut' = analyzeResumeWithGemini(doc)
    /\ dOp' = "analyzeResumeWithGemini"
    /\ UNCHANGED orchVars

OpenAIAnalyzeData ==
    /\ dOp = "none"
    /\ \E doc \in AnalysisReplies :
          /\ dIn' = doc
          /\ dOut' = analyzeResume(doc)
    /\ dOp' = "analyzeResume"
    /\ UNCHANGED orchVars

MockAnalyzeData ==
    /\ dOp = "none"
    /\ \E len \in TextLengths, jd \in BOOLEAN,
          u1 \in RandomSamples, u2 \in RandomSamples,
          u3 \in RandomSamples, u4 \in RandomSamples :
          /\ dIn' = <<len, jd>>
          /\ dOut' = generateMockResumeAnalysis(len, jd, u1, u2, u3, u4)
    /\ dOp' = "generateMockResumeAnalysis"
    /\ UNCHANGED orchVars

GeminiMatchData ==
    /\ dOp = "none"
    /\ \E shape \in {"jobs", "array", "single"}, jobs \in ReplyJobLists :
          /\ shape = "single" => Len(jobs) = 1
          /\ dIn' = <<shape, jobs>>
          /\ dOut' = findJobMatchesWithGemini(shape, jobs)
    /\ dOp' = "findJobMatchesWithGemini"
    /\ UNCHANGED orchVars

OpenAIMatchData ==
    /\ dOp = "none"
    /\ \E jobs \in ReplyJobLists :
          /\ dIn' = <<"jobs", jobs>>
          /\ dOut' = findJobMatches(jobs)
    /\ dOp' = "findJobMatches"
    /\ UNCHANGED orchVars

MockMatchData ==
    /\ dOp = "none"
    /\ \E us \in [1..5 -> RandomSamples], ds \in [1..5 -> RandomSamples],
          now \in CallTimes, dst \in DstShifts :
          /\ dIn' = [us |-> us, ds |-> ds, now |-> now, dst |-> dst]
          /\ dOut' = generateMockJobMatches(us, ds, now, dst)
    /\ dOp' = "generateMockJobMatches"
    /\ UNCHANGED orchVars

DataNext ==
    \/ GeminiAnalyzeData
    \/ OpenAIAnalyzeData
    \/ MockAnalyzeData
    \/ GeminiMatchData
    \/ OpenAIMatchData
    \/ MockMatchData

SpecData == DataInit /\ [][DataNext]_vars

AnalyzeOps ==
    {"analyzeResumeWithGemini", "analyzeResume", "generateMockResumeAnalysis"}
MatchOps ==
    {"findJobMatchesWithGemini", "findJobMatches", "generateMockJobMatches"}

\* C5: the four scores of every returned AnalysisResult and the matchScore of
\* every returned JobMatch lie in 0..100, whichever tier produced them.
C5_ScoresWithin0To100 ==
    /\ dOp \in AnalyzeOps =>
          /\ dOut.overallScore \in 0..100
          /\ dOut.atsCompatibility \in 0..100
          /\ dOut.keywordOptimization \in 0..100
          /\ dOut.experienceRelevance \in 0..100
    /\ dOp \in MatchOps =>
          \A i \in 1..Len(dOut) : dOut[i].matchScore \in 0..100

\* C6: the recommendations of every returned AnalysisResult have at most 7
\* entries, whichever tier produced them.
C6_AtMost7Recommendations ==
    dOp \in AnalyzeOps => Len(dOut.recommendations) <= 7

----------------------------------------------------------------------------
(* Properties of the fallback chain (Spec)                                 *)

Providers == {"gemini", "openai"}

MockProducers == {"adapterMock", "routeMock"}

\* C1: a response whose data came from the Mock Generator is tagged
\* service = "mock" and carries a notice; a response tagged with a provider
\* holds data derived from that provider's reply.
C1_MockDataIsTaggedMock ==
    /\ lastResponse.producer \in MockProducers =>
          (lastResponse.service = "mock" /\ lastResponse.notice)
    /\ lastResponse.service \in Providers =>
          lastResponse.producer = lastResponse.service

\* C2: every response to a request that passed the schema has status 200 and
\* carries a result, whatever the probes and task calls did.
C2_ValidRequestGets200 ==
    lastResponse.valid =>
        (lastResponse.status = 200 /\ lastResponse.producer # "none")

\* A 200 response sent after the task call to Gemini was rejected.
C2_Witness ==
    /\ lastResponse.valid /\ lastResponse.status = 200
    /\ lastResponse.gCall = "error"

\* C3: in analyze, when the route's Gemini probe succeeded, the Gemini task
\* call failed (rejection or unusable reply) and no OpenAI request of the task
\* failed, the response is served by and tagged with OpenAI.
C3_SecondaryServesAfterPrimaryCallFails ==
    (/\ lastResponse.kind = "analyze"
     /\ lastResponse.gProbe = "ok"
     /\ lastResponse.gCall \notin {"none", "ok"}
     /\ ~lastResponse.oBad)
    => (lastResponse.service = "openai" /\ lastResponse.producer = "openai")

\* C4: when no probe and no task call of the task succeeded, the response is
\* tagged "mock" and carries a notice.
C4_AllFailedMeansMock ==
    (lastResponse.valid /\ ~lastResponse.anyOk) =>
        (lastResponse.service = "mock" /\ lastResponse.notice)

\* An analyze response after the Gemini probe and an OpenAI probe both failed.
C4_Witness ==
    /\ lastResponse.valid /\ ~lastResponse.anyOk
    /\ lastResponse.kind = "analyze"
    /\ lastResponse.gProbe = "failed" /\ lastResponse.oBad
    /\ lastResponse.service = "mock"

FlagNext(p) == IF p = "gemini" THEN isGeminiAvailable' ELSE isOpenAIAvailable'

\* In this step task t's probe of p returned (or raised) to its caller.
ProbeDone(t, p) ==
    /\ task'[t] # task[t]
    /\ task'[t].pc = "probeRet" /\ task'[t].prov = p

\* In this step the call block of task t's adapter for p ended: the task
\* request settled, or the block threw before sending it.
CallDone(t, p) ==
    /\ task[t].prov = p /\ task'[t].pc \in {"idle", "extractRet"}
    /\ \/ task[t].pc = "callWait"
       \/ task[t].pc = "probeRet" /\ task[t].ctx = "adapter"
          /\ task[t].st = "valid"

\* Whose data the adapter of task t handed to the route in this step.
AdapterReturned(t) ==
    IF task'[t].pc = "extractRet" THEN task'[t].extractedBy
    ELSE lastResponse'.producer

C9_AdapterNeverReturnsMock ==
    lastResponse.producer # "adapterMock"

\* Any step task t can take.
TaskStep(t) ==
    \/ \E o \in GeminiProbeOutcomes \cup OpenAIProbeOutcomes : ProbeReturn(t, o)
    \/ \E o \in GeminiCallOutcomes \cup OpenAICallOutcomes : CallReturn(t, o)
    \/ RouteAfterGeminiProbe(t)
    \/ RouteAfterOpenAIProbe(t)
    \/ AdapterAfterProbe(t)
    \/ RouteAfterExtraction(t)

\* C10: a task whose provider request never settles can still go on (the
\* request is abandoned and handled as a failure).
C10_HungRequestIsAbandoned ==
    \A t \in Tasks : task[t].pc = "hung" => ENABLED TaskStep(t)

\* C11: in analyze, when the reply to the task request holds no recoverable
\* structure, the adapter's provider is not the tag of the response and its
\* flag is not up when the call has ended.
C11_MalformedReplyIsAProviderFailure ==
    [][\A t \in Tasks :
          (/\ task[t].pc = "callWait" /\ task[t].kind = "analyze"
           /\ task'[t].pc = "idle"
           /\ \/ lastResponse'.gCall = "malformed"
              \/ lastResponse'.oCall = "malformed")
          => (/\ lastResponse'.service # task[t].prov
              /\ ~FlagNext(task[t].prov))]_vars

----------------------------------------------------------------------------
(* The normalizer on reply text (SpecText)                                 *)
(*                                                                         *)
(* A reply text is a sequence of tokens.  A string literal is one token    *)
(* (double- or single-quoted) and holds no quote, bracket, brace or        *)
(* backtick; a run of whitespace is one token; prose is a run of           *)
(* characters that are none of the others.                                 *)

\* Most recommendations a reply text carries in the text model.
MaxTextRecs == 2

T(k) == [k |-> k, s |-> "", n |-> 0]
NumT(n) == [k |-> "num", s |-> "", n |-> n]

\* The string literal named s (n = 0) or the n-th recommendation string, in
\* double quotes (q = "dq") or single quotes.
Q(q, s, n) == [k |-> IF q = "dq" THEN "dstr" ELSE "sstr", s |-> s, n |-> n]

FenceKinds == {"fence", "fenceJson"}

Layouts == {"compact", "spaced", "pretty"}

\* Whitespace after a colon or a comma, and inside brackets and braces.
Sp(layout) == IF layout = "compact" THEN <<>> ELSE <<T("ws")>>
Nl(layout) == IF layout = "pretty" THEN <<T("ws")>> ELSE <<>>

RECURSIVE Join(_, _)
Join(ss, sep) ==
    IF Len(ss) = 0 THEN <<>>
    ELSE IF Len(ss) = 1 THEN ss[1]
    ELSE ss[1] \o sep \o Join(Tail(ss), sep)

ScoreNames ==
    <<"overallScore", "overall_score", "atsCompatibility",
      "ats_compatibility", "keywordOptimization", "keyword_optimization",
      "experienceRelevance", "experience_relevance">>

\* The text of the object doc (an AnalysisReply): its present members in the
\* order of ScoreNames, then recommendations.  trailing puts a comma before
\* the closing brace.
RenderDoc(doc, layout, q, trailing) ==
    LET present == SelectSeq(ScoreNames, LAMBDA nm : doc[nm].t = "num")
        scores == [i \in 1..Len(present) |->
                     <<Q(q, present[i], 0), T("colon")>> \o Sp(layout)
                        \o <<NumT(doc[present[i]].n)>>]
        items == [i \in 1..Len(doc.recommendations) |->
                     <<Q(q, "rec", doc.recommendations[i])>>]
        array == IF Len(items) = 0 THEN <<T("lbrack"), T("rbrack")>>
                 ELSE <<T("lbrack")>> \o Nl(layout)
                         \o Join(items, <<T("comma")>> \o Sp(layout))
                         \o Nl(layout) \o <<T("rbrack")>>
        recs == IF doc.hasRecommendations
                THEN << <<Q(q, "recommendations", 0), T("colon")>>
                           \o Sp(layout) \o array >>
                ELSE <<>>
    IN  <<T("lbrace")>> \o Nl(layout)
           \o Join(scores \o recs, <<T("comma")>> \o Sp(layout))
           \o (IF trailing THEN <<T("comma")>> ELSE <<>>)
           \o Nl(layout) \o <<T("rbrace")>>

\* The text {"jobs": [{"title": .., "company": .., "matchScore": 88}, ..]}
\* with n jobs, and the bare array of the same jobs.
RenderJob(i, layout) ==
    <<T("lbrace"), Q("dq", "title", 0), T("colon")>> \o Sp(layout)
       \o <<Q("dq", "t", i), T("comma")>> \o Sp(layout)
       \o <<Q("dq", "company", 0), T("colon")>> \o Sp(layout)
       \o <<Q("dq", "c", i), T("comma")>> \o Sp(layout)
       \o <<Q("dq", "matchScore", 0), T("colon")>> \o Sp(layout)
       \o <<NumT(88), T("rbrace")>>

RenderJobArray(n, layout) ==
    <<T("lbrack")>>
       \o Join([i \in 1..n |-> RenderJob(i, layout)],
               <<T("comma")>> \o Sp(layout))
       \o <<T("rbrack")>>

RenderJobs(n, layout) ==
    <<T("lbrace"), Q("dq", "jobs", 0), T("colon")>> \o Sp(layout)
       \o RenderJobArray(n, layout) \o <<T("rbrace")>>

NoWs(t) == SelectSeq(t, LAMBDA x : x.k # "ws")

\* First index at or after i whose token is not whitespace (Len(t) + 1 when
\* there is none).
RECURSIVE SkipWs(_, _)
SkipWs(t, i) ==
    IF i > Len(t) THEN Len(t) + 1
    ELSE IF t[i].k = "ws" THEN SkipWs(t, i + 1) ELSE i

\* JSON.parse as a recognizer, on text without whitespace tokens: the index
\* just past the JSON value that starts at t[i], 0 when there is none.
RECURSIVE ValueEnd(_, _)
RECURSIVE ElemsEnd(_, _)
RECURSIVE MembersEnd(_, _)
ValueEnd(t, i) ==
    IF i > Len(t) THEN 0
    ELSE IF t[i].k \in {"num", "dstr"} THEN i + 1
    ELSE IF t[i].k = "lbrack"
    THEN (IF i + 1 <= Len(t) /\ t[i + 1].k = "rbrack" THEN i + 2
          ELSE ElemsEnd(t, i + 1))
    ELSE IF t[i].k = "lbrace"
    THEN (IF i + 1 <= Len(t) /\ t[i + 1].k = "rbrace" THEN i + 2
          ELSE MembersEnd(t, i + 1))
    ELSE 0

ElemsEnd(t, i) ==
    LET j == ValueEnd(t, i)
    IN  IF j = 0 \/ j > Len(t) THEN 0
        ELSE IF t[j].k = "rbrack" THEN j + 1
        ELSE IF t[j].k = "comma" THEN ElemsEnd(t, j + 1)
        ELSE 0

MembersEnd(t, i) ==
    IF i + 1 > Len(t) THEN 0
    ELSE IF t[i].k # "dstr" \/ t[i + 1].k # "colon" THEN 0
    ELSE LET j == ValueEnd(t, i + 2)
         IN  IF j = 0 \/ j > Len(t) THEN 0
             ELSE IF t[j].k = "rbrace" THEN j + 1
             ELSE IF t[j].k = "comma" THEN MembersEnd(t, j + 1)
             ELSE 0

\* JSON.parse(text) does not throw.
IsJson(text) ==
    LET t == NoWs(text)
    IN  Len(t) > 0 /\ ValueEnd(t, 1) = Len(t) + 1

RECURSIVE DropWs(_)
DropWs(t) ==
    IF Len(t) > 0 /\ Head(t).k = "ws" THEN DropWs(Tail(t)) ELSE t

RECURSIVE DropTrailingWs(_)
DropTrailingWs(t) ==
    IF Len(t) > 0 /\ t[Len(t)].k = "ws"
    THEN DropTrailingWs(SubSeq(t, 1, Len(t) - 1)) ELSE t

RECURSIVE StripFences(_)

\* StripFences gone wrong: only a fence at the very start is removed.
StripFencesOnlyAtStart(t) ==
    IF Len(t) > 0 /\ Head(t).k \in FenceKinds THEN DropWs(Tail(t)) ELSE t

\* replace(/```json\s*/g, ''), replace(/```\s*/g, ''): every fence goes, with
\* the whitespace that follows it.
StripFences(t) ==
    IF Len(t) = 0 THEN <<>>
    ELSE IF Head(t).k \in FenceKinds THEN StripFences(DropWs(Tail(t)))
    ELSE <<Head(t)>> \o StripFences(Tail(t))

\* The older revision: replace(/^```json\s*/g, ''), replace(/^```\s*/g, ''),
\* replace(/\s*```$/g, '').
StripFencesAnchored(t) ==
    LET a == IF Len(t) > 0 /\ Head(t).k = "fenceJson"
             THEN DropWs(Tail(t)) ELSE t
        b == IF Len(a) > 0 /\ Head(a).k = "fence"
             THEN DropWs(Tail(a)) ELSE a
    IN  IF Len(b) > 0 /\ b[Len(b)].k = "fence"
        THEN DropTrailingWs(SubSeq(b, 1, Len(b) - 1)) ELSE b

\* First index at or after i whose token has kind k (0 when there is none).
RECURSIVE IndexOf(_, _, _)
IndexOf(t, i, k) ==
    IF i > Len(t) THEN 0
    ELSE IF t[i].k = k THEN i ELSE IndexOf(t, i + 1, k)

\* The matches of /(\[[\s\S]*?\])/g or /(\{[\s\S]*?\})/g from index i on: from
\* an opening token to the first closing token after it, then on from there.
RECURSIVE LazyMatches(_, _, _, _)
LazyMatches(t, i, open, close) ==
    LET a == IndexOf(t, i, open)
        b == IF a = 0 THEN 0 ELSE IndexOf(t, a + 1, close)
    IN  IF a = 0 \/ b = 0 THEN <<>>
        ELSE <<SubSeq(t, a, b)>> \o LazyMatches(t, b + 1, open, close)

NoMatch == [found |-> FALSE, text |-> <<>>]

\* The first match that parses.
FirstValid(ms) ==
    LET ok == {i \in 1..Len(ms) : IsJson(ms[i])}
    IN  IF ok = {} THEN NoMatch
        ELSE [found |-> TRUE,
              text |-> ms[CHOOSE i \in ok : \A j \in ok : i <= j]]

\* The first match that parses after sorting by length, longest first (the
\* sort is stable; length is counted in tokens).
LongestValid(ms) ==
    LET ok == {i \in 1..Len(ms) : IsJson(ms[i])}
    IN  IF ok = {} THEN NoMatch
        ELSE [found |-> TRUE,
              text |-> ms[CHOOSE i \in ok : \A j \in ok :
                            \/ Len(ms[i]) > Len(ms[j])
                            \/ Len(ms[i]) = Len(ms[j]) /\ i <= j]]

\* cleaned.match(/(\{[\s\S]*\})/): from the first opening brace to the last
\* closing brace; the text itself when there is no such match.
StrictJsonMatch(t) ==
    LET a == IndexOf(t, 1, "lbrace")
        bs == {i \in 1..Len(t) : t[i].k = "rbrace" /\ i > a}
    IN  IF a = 0 \/ bs = {} THEN t
        ELSE SubSeq(t, a, CHOOSE b \in bs : \A c \in bs : c <= b)

\* replace(/,\s*}/g, '}') and replace(/,\s*\]/g, ']').
RECURSIVE DropTrailingCommas(_)
DropTrailingCommas(t) ==
    IF Len(t) = 0 THEN <<>>
    ELSE LET j == SkipWs(t, 2)
         IN  IF /\ Head(t).k = "comma" /\ j <= Len(t)
                /\ t[j].k \in {"rbrace", "rbrack"}
             THEN DropTrailingCommas(SubSeq(t, j, Len(t)))
             ELSE <<Head(t)>> \o DropTrailingCommas(Tail(t))

\* The repair step: property names get double quotes, every single quote
\* becomes a double quote, trailing commas go.
FixJson(t) ==
    DropTrailingCommas(
        [i \in 1..Len(t) |->
            IF t[i].k = "sstr" THEN [t[i] EXCEPT !.k = "dstr"] ELSE t[i]])

\* replace(/:\s*"([^"]*?)"/g, ..): a double-quoted string after a colon comes
\* back as ': "..."', with one blank between them.
RECURSIVE RespaceStrings(_)
RespaceStrings(t) ==
    IF Len(t) = 0 THEN <<>>
    ELSE LET j == SkipWs(t, 2)
         IN  IF Head(t).k = "colon" /\ j <= Len(t) /\ t[j].k = "dstr"
             THEN <<Head(t), T("ws"), t[j]>>
                     \o RespaceStrings(SubSeq(t, j + 1, Len(t)))
             ELSE <<Head(t)>> \o RespaceStrings(Tail(t))

HasString(t, s) == \E i \in 1..Len(t) : t[i] = Q("dq", s, 0)

\* The tail both revisions share: after the scans found nothing.
CleanTail(strict, repair) ==
    LET fixed == FixJson(strict)
        spaced == RespaceStrings(strict)
        wrapped == <<T("lbrack")>> \o spaced \o <<T("rbrack")>>
    IN  IF repair /\ IsJson(fixed) THEN fixed
        ELSE IF /\ repair /\ HasString(spaced, "title")
                /\ HasString(spaced, "company") /\ IsJson(wrapped)
        THEN wrapped
        ELSE spaced

\* cleanGeminiResponse of the older revision (part_009).
cleanGeminiResponseOld(content) ==
    LET cleaned == StripFencesAnchored(content)
        objects == LongestValid(LazyMatches(cleaned, 1, "lbrace", "rbrace"))
    IN  IF IsJson(cleaned) THEN cleaned
        ELSE IF objects.found THEN objects.text
        ELSE CleanTail(StrictJsonMatch(cleaned), FALSE)

\* cleanGeminiResponse (part_008).
cleanGeminiResponse(content) ==
    LET cleaned == StripFences(content)
        arrays == FirstValid(LazyMatches(cleaned, 1, "lbrack", "rbrack"))
        objects == LongestValid(LazyMatches(cleaned, 1, "lbrace", "rbrace"))
    IN  IF IsJson(cleaned) THEN cleaned
        ELSE IF arrays.found THEN arrays.text
        ELSE IF objects.found THEN objects.text
        ELSE CleanTail(StrictJsonMatch(cleaned), TRUE)

\* content.match(/"<name>"\s*:\s*(\d+)/) at index i: the quoted name, a
\* colon and a run of digits, with optional whitespace between them.
ScoreMatchAt(t, i, name) ==
    /\ t[i] = Q("dq", name, 0)
    /\ LET c == SkipWs(t, i + 1)
       IN  /\ c <= Len(t) /\ t[c].k = "colon"
           /\ LET v == SkipWs(t, c + 1)
              IN  v <= Len(t) /\ t[v].k = "num" /\ t[v].n >= 0

\* The score the extraction finds for name: parseInt of the leftmost match,
\* or the initial 0.
TextScore(t, name) ==
    LET at == {i \in 1..Len(t) : ScoreMatchAt(t, i, name)}
    IN  IF at = {} THEN 0
        ELSE LET i == CHOOSE a \in at : \A b \in at : a <= b
             IN  t[SkipWs(t, SkipWs(t, i + 1) + 1)].n

\* The index of the opening bracket of the leftmost match of
\* /"recommendations"\s*:\s*\[([\s\S]*?)\]/, 0 when there is none.
RecsOpenAt(t, i) ==
    IF t[i] # Q("dq", "recommendations", 0) THEN 0
    ELSE LET c == SkipWs(t, i + 1)
         IN  IF c > Len(t) \/ t[c].k # "colon" THEN 0
             ELSE LET b == SkipWs(t, c + 1)
                  IN  IF b > Len(t) \/ t[b].k # "lbrack" THEN 0
                      ELSE IF IndexOf(t, b + 1, "rbrack") = 0 THEN 0
                      ELSE b

\* One entry of the split: a whole string literal gives its content, anything
\* else (leading or trailing whitespace, several literals) gives the raw piece
\* with the quotes the replace calls did not reach.
Entry(piece) ==
    IF Len(piece) = 1 /\ piece[1].k = "dstr"
    THEN [clean |-> TRUE, n |-> piece[1].n, raw |-> <<>>]
    ELSE [clean |-> FALSE, n |-> 0, raw |-> piece]

\* recText.split(/",\s*"/): a split point is the closing quote of a literal,
\* a comma right after it, optional whitespace and the opening quote of the
\* next literal.
RECURSIVE SplitEntries(_, _, _)
SplitEntries(g, s, i) ==
    IF i > Len(g) THEN <<Entry(SubSeq(g, s, Len(g)))>>
    ELSE LET m == SkipWs(g, i + 2)
         IN  IF /\ g[i].k = "dstr" /\ i + 1 <= Len(g)
                /\ g[i + 1].k = "comma"
                /\ m <= Len(g) /\ g[m].k = "dstr"
             THEN <<Entry(SubSeq(g, s, i))>> \o SplitEntries(g, m, m)
             ELSE SplitEntries(g, s, i + 1)

\* The recommendations the extraction finds: the entries of the captured
\* group; no match or an empty group leaves the initial [].
TextRecommendations(t) ==
    LET at == {i \in 1..Len(t) : RecsOpenAt(t, i) # 0}
    IN  IF at = {} THEN <<>>
        ELSE LET b == RecsOpenAt(t, CHOOSE a \in at : \A c \in at : a <= c)
                 e == IndexOf(t, b + 1, "rbrack")
             IN  IF e = b + 1 THEN <<>>
                 ELSE SplitEntries(SubSeq(t, b + 1, e - 1), 1, 1)

\* analyzeResumeWithGemini from the reply text on: cleanGeminiResponse, then
\* the extraction by regular expressions.
analyzeResumeWithGeminiText(content) ==
    LET t == cleanGeminiResponse(content)
    IN  [overallScore |-> TextScore(t, "overallScore"),
         atsCompatibility |-> TextScore(t, "atsCompatibility"),
         keywordOptimization |-> TextScore(t, "keywordOptimization"),
         experienceRelevance |-> TextScore(t, "experienceRelevance"),
         recommendations |-> TextRecommendations(t)]

\* The value tokens of the last member called name of the object that starts
\* at t[1] (t without whitespace, a JSON object); <<>> when it has none.
RECURSIVE MemberFrom(_, _, _, _)
MemberFrom(t, i, name, acc) ==
    IF i > Len(t) \/ t[i].k # "dstr" THEN acc
    ELSE LET j == ValueEnd(t, i + 2)
             val == SubSeq(t, i + 2, j - 1)
         IN  MemberFrom(t, j + 1, name,
                        IF t[i] = Q("dq", name, 0) THEN val ELSE acc)

Member(t, name) ==
    IF Len(t) > 0 /\ t[1].k = "lbrace" THEN MemberFrom(t, 2, name, <<>>)
    ELSE <<>>

\* JavaScript  v || a || 0  on the values of two members that are numbers
\* or absent.
NumOrElse(v, a) ==
    IF Len(v) = 1 /\ v[1].k = "num" /\ v[1].n # 0 THEN v[1].n
    ELSE IF Len(a) = 1 /\ a[1].k = "num" /\ a[1].n # 0 THEN a[1].n
    ELSE 0

\* analyzeResume (OpenAI) from the reply text on: JSON.parse of the content
\* as it came, then the member reads.  thrown: JSON.parse threw, the adapter
\* goes to its catch block.
analyzeResumeText(content) ==
    LET t == NoWs(content)
        recs == SelectSeq(Member(t, "recommendations"),
                          LAMBDA x : x.k = "dstr")
    IN  IF ~IsJson(content)
        THEN [thrown |-> TRUE, overallScore |-> 0, atsCompatibility |-> 0,
              keywordOptimization |-> 0, experienceRelevance |-> 0,
              recommendations |-> <<>>]
        ELSE [thrown |-> FALSE,
              overallScore |->
                  NumOrElse(Member(t, "overallScore"),
                            Member(t, "overall_score")),
              atsCompatibility |->
                  NumOrElse(Member(t, "atsCompatibility"),
                            Member(t, "ats_compatibility")),
              keywordOptimization |->
                  NumOrElse(Member(t, "keywordOptimization"),
                            Member(t, "keyword_optimization")),
              experienceRelevance |->
                  NumOrElse(Member(t, "experienceRelevance"),
                            Member(t, "experience_relevance")),
              recommendations |->
                  [i \in 1..Len(recs) |->
                      [clean |-> TRUE, n |-> recs[i].n, raw |-> <<>>]]]

\* The parsed content of a normalized text: its tokens without whitespace
\* when it parses, a mark when it does not.
ParsedContent(t) ==
    IF IsJson(t) THEN [parses |-> TRUE, value |-> NoWs(t)]
    ELSE [parses |-> FALSE, value |-> <<>>]

TextFields == {"overallScore", "experienceRelevance"}

TextScoreValues == {Absent, Num(0), Num(72)}

\* The analysis objects of the text model.
TextDocs ==
    {AnalysisReply(f, v, a, n, TRUE) :
        f \in TextFields, v \in TextScoreValues, a \in TextScoreValues,
        n \in 0..MaxTextRecs}
    \cup {AnalysisReply(f, v, a, 0, FALSE) :
        f \in TextFields, v \in TextScoreValues, a \in TextScoreValues}

Alias(f) ==
    CASE f = "overallScore" -> "overall_score"
      [] f = "atsCompatibility" -> "ats_compatibility"
      [] f = "keywordOptimization" -> "keyword_optimization"
      [] f = "experienceRelevance" -> "experience_relevance"

\* doc matches the analysis shape: every score is there under exactly one of
\* its two names, within 0..100, and recommendations is a list.
MatchesShape(doc) ==
    /\ doc.hasRecommendations
    /\ \A f \in ScoreFields :
          /\ (doc[f].t = "num") # (doc[Alias(f)].t = "num")
          /\ doc[f].n \in 0..100 /\ doc[Alias(f)].n \in 0..100

Named(doc, f) == IF doc[f].t = "num" THEN doc[f].n ELSE doc[Alias(f)].n

\* The texts of the target shapes: analysis objects, a jobs object, a bare
\* array of jobs.
TargetTexts ==
    {RenderDoc(doc, layout, "dq", FALSE) :
        doc \in {d \in TextDocs : MatchesShape(d)}, layout \in Layouts}
    \cup {RenderJobs(n, layout) : n \in 1..MaxJobs, layout \in Layouts}
    \cup {RenderJobArray(n, layout) : n \in 1..MaxJobs, layout \in Layouts}

\* text between an opening fence (``` or ```json) and a closing fence, with or
\* without line breaks between the fences and the text.
Wrap(text, open, nl) ==
    <<T(open)>> \o (IF nl THEN <<T("ws")>> ELSE <<>>) \o text
       \o (IF nl THEN <<T("ws")>> ELSE <<>>) \o <<T("fence")>>

Revisions == {"part_008", "part_009"}

Normalize(rev, text) ==
    ParsedContent(IF rev = "part_008" THEN cleanGeminiResponse(text)
                  ELSE cleanGeminiResponseOld(text))

GeminiAnalyzeText ==
    /\ dOp = "none"
    /\ \E doc \in TextDocs, layout \in Layouts :
          LET text == RenderDoc(doc, layout, "dq", FALSE)
          IN  /\ dIn' = [doc |-> doc, text |-> text]
              /\ dOut' = analyzeResumeWithGeminiText(text)
    /\ dOp' = "analyzeResumeWithGeminiText"
    /\ UNCHANGED orchVars

OpenAIAnalyzeText ==
    /\ dOp = "none"
    /\ \E doc \in TextDocs, layout \in Layouts :
          LET text == RenderDoc(doc, layout, "dq", FALSE)
          IN  /\ dIn' = [doc |-> doc, text |-> text]
              /\ dOut' = analyzeResumeText(text)
    /\ dOp' = "analyzeResumeText"
    /\ UNCHANGED orchVars

FenceRoundTrip ==
    /\ dOp = "none"
    /\ \E plain \in TargetTexts, open \in FenceKinds, nl \in BOOLEAN,
          rev \in Revisions :
          LET wrapped == Wrap(plain, open, nl)
          IN  /\ dIn' = [rev |-> rev, plain |-> plain, wrapped |-> wrapped]
              /\ dOut' = [plain |-> Normalize(rev, plain),
                          wrapped |-> Normalize(rev, wrapped)]
    /\ dOp' = "fenceRoundTrip"
    /\ UNCHANGED orchVars

RepairRoundTrip ==
    /\ dOp = "none"
    /\ \E doc \in TextDocs, layout \in Layouts :
          LET valid == RenderDoc(doc, layout, "dq", FALSE)
              near == RenderDoc(doc, layout, "sq", TRUE)
          IN  /\ dIn' = [valid |-> valid, near |-> near]
              /\ dOut' = [valid |-> Normalize("part_008", valid),
                          near |-> Normalize("part_008", near)]
    /\ dOp' = "repairRoundTrip"
    /\ UNCHANGED orchVars

\* The text of an analysis object with a sentence before it and a sentence
\* after it (prose: a run of characters without quotes, brackets or braces).
InProse(text) == <<T("prose"), T("ws")>> \o text \o <<T("ws"), T("prose")>>

\* analyzeResumeWithGemini on a reply that puts prose around the object: the
\* text cleanGeminiResponse returns and the result built from it.
ProseRoundTrip ==
    /\ dOp = "none"
    /\ \E doc \in TextDocs, layout \in Layouts :
          LET object == RenderDoc(doc, layout, "dq", FALSE)
          IN  /\ dIn' = [doc |-> doc, object |-> object,
                         text |-> InProse(object)]
              /\ dOut' = [clean |-> Normalize("part_008", InProse(object)),
                          result |->
                              analyzeResumeWithGeminiText(InProse(object))]
    /\ dOp' = "proseRoundTrip"
    /\ UNCHANGED orchVars

TextNext ==
    \/ GeminiAnalyzeText
    \/ OpenAIAnalyzeText
    \/ FenceRoundTrip
    \/ RepairRoundTrip
    \/ ProseRoundTrip

SpecText == DataInit /\ [][TextNext]_vars

\* C12: for a well-formed JSON object of the analysis shape, with each score
\* under either of its names, both adapters return exactly the object's
\* scores and recommendations.
C12_NormalizedEqualsObject ==
    (/\ dOp \in {"analyzeResumeWithGeminiText", "analyzeResumeText"}
     /\ MatchesShape(dIn.doc))
    => /\ \A f \in ScoreFields : dOut[f] = Named(dIn.doc, f)
       /\ dOut.recommendations =
             [i \in 1..Len(dIn.doc.recommendations) |->
                 [clean |-> TRUE, n |-> dIn.doc.recommendations[i],
                  raw |-> <<>>]]

\* C13: a JSON value of a target shape between code fences normalizes to the
\* same parsed content as the value alone, which is the value itself.
C13_FencedEqualsUnfenced ==
    dOp = "fenceRoundTrip" =>
        /\ dOut.wrapped = dOut.plain
        /\ dOut.plain.parses
        /\ dOut.plain.value = NoWs(dIn.plain)

\* A jobs object between ```json and ```, on lines of their own, normalized
\* by the older revision.
C13_Witness ==
    /\ dOp = "fenceRoundTrip"
    /\ dIn.rev = "part_009"
    /\ dIn.wrapped[1].k = "fenceJson" /\ dIn.wrapped[2].k = "ws"
    /\ HasString(dIn.plain, "jobs")
    /\ dOut.wrapped.parses

\* C14: a text that differs from a valid JSON object only by single quotes
\* around keys and values and a comma before the closing brace normalizes to
\* the same parsed content as the valid text.
C14_RepairedEqualsValid ==
    dOp = "repairRoundTrip" => dOut.near = dOut.valid

\* C15: in every batch returned by match the ids are pairwise distinct,
\* whether the reply supplied them, omitted them or repeated one.
C15_JobIdsAreDistinct ==
    dOp \in MatchOps =>
        \A i, j \in 1..Len(dOut) : i # j => dOut[i].id # dOut[j].id

\* C16: the mock match generator returns 5 entries, each with a matchScore in
\* 65..95 and a postedDate at most 30 days before the day of the call and not
\* after it, with pairwise distinct ids.
C16_MockMatchesAreFiveRecentJobs ==
    dOp = "generateMockJobMatches" =>
        /\ Len(dOut) = 5
        /\ \A i \in 1..Len(dOut) :
              /\ dOut[i].matchScore \in 65..95
              /\ dOut[i].postedDate <= dIn.now \div 24
              /\ dOut[i].postedDate >= dIn.now \div 24 - 30
        /\ \A i, j \in 1..Len(dOut) : i # j => dOut[i].id # dOut[j].id

\* A mock batch with the highest and the lowest score, a job posted on the
\* day of the call and one posted 30 days before it.
C16_Witness ==
    /\ dOp = "generateMockJobMatches"
    /\ \E i, j, k, l \in 1..Len(dOut) :
          /\ dOut[i].matchScore = 95 /\ dOut[j].matchScore = 65
          /\ dOut[k].postedDate = dIn.now \div 24
          /\ dOut[l].postedDate = dIn.now \div 24 - 30

\* C17 as stated: analyze with empty resume text and no job description is
\* answered 200 with a result of the mock tier.
C17_EmptyTextGetsMockResult ==
    (lastResponse.kind = "analyze" /\ lastResponse.emptyText)
    => (lastResponse.status = 200 /\ lastResponse.producer \in MockProducers)

\* C17 amended: analyze with empty resume text is answered 400 and carries no
\* result, and no handler goes on to the providers or the mock tier with an
\* empty text.
C17_EmptyTextIsRejected ==
    /\ (lastResponse.kind = "analyze" /\ lastResponse.emptyText)
       => (lastResponse.status = 400 /\ lastResponse.producer = "none")
    /\ \A t \in Tasks : ~task[t].emptyText

\* The 400 answer to an analyze request with empty resume text.
C17_Witness ==
    /\ lastResponse.kind = "analyze" /\ lastResponse.emptyText
    /\ lastResponse.status = 400

----------------------------------------------------------------------------
(* Running without API keys (SpecUpload)                                   *)

\* C18: with neither GEMINI_API_KEY nor OPENAI_API_KEY, every response of an
\* analyze, job-matches or upload task is a 200 whose data (and, for an
\* upload, whose text) comes from the mock service, tagged "mock", with the
\* notice, and no task is left waiting for ever; without GEMINI_API_KEY the
\* Gemini probe is never in flight as a request and returns not valid.
C18_NoKeysMeansMock ==
    /\ (~geminiKey /\ ~openaiKey) =>
          /\ lastResponse.valid =>
                /\ lastResponse.status = 200
                /\ lastResponse.producer \in MockProducers
                /\ lastResponse.service = "mock"
                /\ lastResponse.notice
                /\ lastResponse.kind = "upload" =>
                      /\ lastResponse.extraction = "mock"
                      /\ lastResponse.extractedBy \in MockProducers
          /\ \A t \in Tasks :
                /\ task[t].pc # "hung"
                /\ task[t].pc # "idle" => ENABLED TaskStep(t)
    /\ ~geminiKey =>
          \A t \in Tasks :
              task[t].prov = "gemini" =>
                  /\ task[t].pc \notin {"probeWait", "callWait"}
                  /\ task[t].pc = "probeRet" => task[t].st = "invalid"

\* An upload answered without any key: text and analysis both from the mock
\* service.
C18_Witness ==
    /\ ~geminiKey /\ ~openaiKey
    /\ lastResponse.valid /\ lastResponse.kind = "upload"
    /\ lastResponse.extraction = "mock" /\ lastResponse.service = "mock"
    /\ lastResponse.notice

----------------------------------------------------------------------------
(* GET /api/status (SpecStatus)                                            *)

\* The two revisions of the status route: server/routes.ts probes Gemini
\* only, src/unnamed/part_007 probes both providers and prefers OpenAI.
StatusRevisions == {"routes", "part_007"}

\* Provider health: how each provider answers a probe for as long as its
\* health does not change.  Without its key OpenAI answers no request.
Healths ==
    {h \in [gemini : GeminiProbeOutcomes, openai : OpenAIProbeOutcomes] :
        OpenAICanAnswer("openai", h.openai)}

StatusInit ==
    /\ isGeminiAvailable \in BOOLEAN
    /\ isOpenAIAvailable \in BOOLEAN
    /\ geminiKey \in BOOLEAN
    /\ openaiKey \in BOOLEAN
    /\ task = [t \in Tasks |-> IdleTask]
    /\ lastResponse = NoResponse
    /\ downByCall = FALSE
    /\ dOp = "status"
    /\ \E rev \in StatusRevisions, h \in Healths :
          dIn = [rev |-> rev, health |-> h]
    /\ dOut = <<>>

\* StatusProbe gone wrong: the route reports the cached flag in place of the
\* result of the probe it has just made.
StatusProbeReportsCachedFlag(p, o) == Flag(p)

\* The isValid the status route gets from a probe of p whose request ends
\* with outcome o: a probe that raises is turned into isValid false by the
\* route's .catch, and the Gemini probe is not valid without its key.
StatusProbe(p, o) ==
    /\ ProbeResult(p, o) = "valid"
    /\ p = "gemini" => geminiKey

\* preferredService of server/routes.ts.
preferredService(geminiValid) == IF geminiValid THEN "gemini" ELSE "mock"

\* preferredService of part_007.
preferredServiceBoth(openAIValid, geminiValid) ==
    IF openAIValid THEN "openai"
    ELSE IF geminiValid THEN "gemini" ELSE "mock"

\* Calls of status() observed in one behaviour.
MaxStatusCalls == 2

\* The Gemini probe of a status call waits for ever on its request: the call
\* returns nothing.
StatusPending == geminiKey /\ dIn.health.gemini = "hang"

\* GET /api/status of server/routes.ts: one probe of Gemini, which writes the
\* Gemini flag, and the response.
GetStatus ==
    /\ dOp = "status" /\ dIn.rev = "routes"
    /\ Len(dOut) < MaxStatusCalls
    /\ IF StatusPending
       THEN /\ dOut' = Append(dOut, "pending")
            /\ UNCHANGED isGeminiAvailable
       ELSE /\ isGeminiAvailable' =
                  (geminiKey /\ ProbeFlag("gemini", dIn.health.gemini))
            /\ dOut' = Append(dOut,
                  preferredService(StatusProbe("gemini", dIn.health.gemini)))
    /\ UNCHANGED <<isOpenAIAvailable, geminiKey, openaiKey, task,
                   lastResponse, downByCall, dOp, dIn>>

\* GET /api/status of part_007: both probes under Promise.all, each writing
\* its own flag, and the response once both have returned.
GetStatusBoth ==
    /\ dOp = "status" /\ dIn.rev = "part_007"
    /\ Len(dOut) < MaxStatusCalls
    /\ isOpenAIAvailable' = ProbeFlag("openai", dIn.health.openai)
    /\ IF StatusPending
       THEN /\ dOut' = Append(dOut, "pending")
            /\ UNCHANGED isGeminiAvailable
       ELSE /\ isGeminiAvailable' =
                  (geminiKey /\ ProbeFlag("gemini", dIn.health.gemini))
            /\ dOut' = Append(dOut,
                  preferredServiceBoth(
                      StatusProbe("openai", dIn.health.openai),
                      StatusProbe("gemini", dIn.health.gemini)))
    /\ UNCHANGED <<geminiKey, openaiKey, task, lastResponse, downByCall,
                   dOp, dIn>>

\* The handler that serves analyze requests next to the status calls.
StatusTasks == {1}

\* What a task request gets from a provider of the given health: a usable
\* reply from a provider whose probe is valid, otherwise what the probe gets.
CallUnderHealth(p, h) ==
    IF p = "gemini"
    THEN (IF h.gemini = "online" THEN "ok"
          ELSE IF h.gemini = "unexpected" THEN "malformed"
          ELSE h.gemini)
    ELSE (IF h.openai = "ok" THEN "ok" ELSE "error")

\* The steps of an analyze task whose requests are answered as the health of
\* the providers has it.
StartUnderHealth(t) ==
    /\ dOp = "status"
    /\ Start(t, "analyze")

ProbeReturnUnderHealth(t) ==
    /\ dOp = "status" /\ task[t].pc = "probeWait"
    /\ ProbeReturn(t, dIn.health[task[t].prov])

CallReturnUnderHealth(t) ==
    /\ dOp = "status" /\ task[t].pc = "callWait"
    /\ CallReturn(t, CallUnderHealth(task[t].prov, dIn.health))

RequestHangsUnderHealth(t) ==
    /\ dOp = "status" /\ dIn.health.gemini = "hang"
    /\ RequestHangs(t)

StatusNext ==
    \/ GetStatus
    \/ GetStatusBoth
    \/ \E t \in StatusTasks : StartUnderHealth(t)
    \/ \E t \in StatusTasks : ProbeReturnUnderHealth(t)
    \/ \E t \in StatusTasks : RequestHangsUnderHealth(t)
    \/ \E t \in StatusTasks : RouteAfterGeminiProbe(t)
    \/ \E t \in StatusTasks : RouteAfterOpenAIProbe(t)
    \/ \E t \in StatusTasks : AdapterAfterProbe(t)
    \/ \E t \in StatusTasks : CallReturnUnderHealth(t)

SpecStatus == StatusInit /\ [][StatusNext]_vars

\* C19: two consecutive status() calls under the same provider health, with
\* nothing else running in between, return the same preferred value.
C19_StatusPreferredIsStable ==
    dOp = "status" =>
        \A i \in 1..Len(dOut) : \A j \in 1..Len(dOut) : dOut[i] = dOut[j]

\* Two status calls that both preferred Gemini, the first of which found the
\* Gemini flag down and put it up.
C19_Witness ==
    /\ dOp = "status" /\ Len(dOut) >= 2
    /\ dOut[1] = "gemini" /\ dOut[2] = "gemini"
    /\ isGeminiAvailable

----------------------------------------------------------------------------
(* Outbound requests of one adapter invocation (SpecUpload)                *)

\* The adapter invocation whose value is in the last response has ended.
AdapterAnswered == lastResponse.producer \in Providers \cup {"adapterMock"}

\* C20 as stated: an adapter invocation sends exactly one request to its
\* provider, probe and task requests counted together.
C20_OneRequestPerInvocation ==
    /\ \A t \in Tasks : task[t].aProbes + task[t].aCalls <= 1
    /\ AdapterAnswered => lastResponse.aProbes + lastResponse.aCalls = 1

\* C20 amended: an adapter invocation sends at most one task request and never
\* repeats it, and sends it only after one probe request of its own: the
\* invocation causes no request (flag down), one (probe not valid) or two,
\* and the provider's data is returned only after both.
C20_OneProbeThenOneCall ==
    /\ \A t \in Tasks :
          /\ task[t].aProbes <= 1 /\ task[t].aCalls <= 1
          /\ task[t].aCalls = 1 => task[t].aProbes = 1
          /\ (task[t].pc = "callWait") => task[t].aCalls = 1
    /\ lastResponse.aProbes <= 1 /\ lastResponse.aCalls <= 1
    /\ lastResponse.aCalls = 1 => lastResponse.aProbes = 1
    /\ lastResponse.producer \in Providers =>
          lastResponse.aProbes + lastResponse.aCalls = 2

\* A response with mock data from an adapter that sent its probe request and
\* then a task request, which failed.
C20_Witness ==
    /\ lastResponse.producer = "adapterMock"
    /\ lastResponse.aProbes = 1 /\ lastResponse.aCalls = 1
    /\ lastResponse.oCall = "error"

----------------------------------------------------------------------------
(* Order of the tiers (Spec, SpecUpload)                                   *)

\* C21: in a job-matches task whose Gemini probe failed the route goes on to
\* OpenAI, and mock data is sent only after an OpenAI probe or call of the
\* task has failed as well.
C21_MatchTriesSecondaryBeforeMock ==
    (lastResponse.kind = "match" /\ lastResponse.valid) =>
        /\ lastResponse.gProbe = "failed" =>
              (lastResponse.oBad \/ lastResponse.producer = "openai")
        /\ lastResponse.producer \in MockProducers => lastResponse.oBad

\* C22: within one task at most one provider request is in flight; a task call
\* is in flight only after the adapter's probe of the same provider returned
\* valid in this task; and OpenAI is contacted only after the task's probe of
\* Gemini has failed (a failed Gemini call never leads to OpenAI at all).
C22_StrictOrderWithinTask ==
    \A t \in Tasks :
        /\ Cardinality(task[t].inFlight) <= 1
        /\ task[t].pc = "callWait" =>
              /\ task[t].inFlight = {task[t].prov}
              /\ task[t].st = "valid" /\ task[t].aProbes = 1
        /\ (task[t].prov = "openai" \/ "openai" \in task[t].inFlight) =>
              task[t].gProbe = "failed"

\* A task call to OpenAI in flight, after the task's Gemini probe failed and
\* its OpenAI probes succeeded.
C22_Witness ==
    \E t \in Tasks :
        /\ task[t].pc = "callWait" /\ task[t].prov = "openai"
        /\ task[t].inFlight = {"openai"}
        /\ task[t].gProbe = "failed" /\ task[t].kind = "analyze"

----------------------------------------------------------------------------
(* Interleaved tasks racing on the flags (SpecFair)                        *)

\* The event loop runs every continuation that is ready, and a request that
\* settles resumes its handler: each task keeps taking the steps it can take.
SpecFair == Spec /\ \A t \in Tasks : WF_vars(TaskStep(t))

\* C23: with tasks interleaved at their awaits, every task that has started
\* ends with its response sent, and a probe that finds its provider healthy
\* leaves the provider's flag up whatever another task wrote before.
C23_RacingTasksTerminateAndFlagRecovers ==
    /\ \A t \in Tasks : (task[t].pc # "idle") ~> (task[t].pc = "idle")
    /\ [][\A t \in Tasks : \A p \in Providers :
            (ProbeDone(t, p) /\ task'[t].st = "valid") => FlagNext(p)]_vars

----------------------------------------------------------------------------
(* Probes (Spec)                                                           *)

\* C24: a probe never raises: it hands its caller a status, and a status that
\* is not valid comes with the provider's flag down.
C24_ProbeNeverRaises ==
    [][\A t \in Tasks : \A p \in Providers :
          ProbeDone(t, p) =>
              /\ task'[t].st \in {"valid", "invalid"}
              /\ task'[t].st = "invalid" => ~FlagNext(p)]_vars

----------------------------------------------------------------------------
(* The bracket scan (SpecText)                                             *)

\* C25: for an analysis object with prose around it, whose recommendations
\* array is valid JSON, normalization yields the whole object and the result
\* holds the scores the object names in camelCase.
C25_ScanYieldsWholeObject ==
    (dOp = "proseRoundTrip" /\ dIn.doc.hasRecommendations) =>
        /\ dOut.clean = ParsedContent(dIn.object)
        /\ \A f \in ScoreFields : dOut.result[f] = RegexScore(dIn.doc[f])

----------------------------------------------------------------------------
(* Upload without a file (SpecUpload)                                      *)

\* C26: the step that answers an upload without a file with 400 changes
\* nothing else: no handler starts or moves (so no probe or provider request
\* is sent), both flags keep their values, and the answer reports no write to
\* storage and no request.
C26_UploadWithoutFileHasNoEffect ==
    [][(/\ lastResponse' # lastResponse
        /\ lastResponse'.kind = "upload" /\ lastResponse'.status = 400)
       => /\ task' = task
          /\ isGeminiAvailable' = isGeminiAvailable
          /\ isOpenAIAvailable' = isOpenAIAvailable
          /\ downByCall' = downByCall
          /\ ~lastResponse'.saved /\ ~lastResponse'.valid
          /\ lastResponse'.aProbes = 0 /\ lastResponse'.aCalls = 0
          /\ lastResponse'.gProbe = "none"]_vars

\* An upload without a file was answered while the Gemini flag was down.
C26_Witness ==
    /\ lastResponse.kind = "upload" /\ lastResponse.status = 400
    /\ ~isGeminiAvailable /\ isOpenAIAvailable

----------------------------------------------------------------------------
(* The flag between the route's probe and the adapter's check (Spec)       *)

\* C27: a task whose own probe of Gemini returned valid enters the Gemini
\* adapter past its flag check when it resumes, on the way to the task call:
\* it does not answer there and then with mock data.
C27_ValidProbeLeadsToCall ==
    [][\A t \in Tasks :
          (/\ task[t].pc = "probeRet" /\ task[t].ctx = "route"
           /\ task[t].prov = "gemini" /\ task[t].st = "valid"
           /\ task[t].phase # 0
           /\ task'[t] # task[t])
          => (/\ task'[t].pc = "probeWait" /\ task'[t].ctx = "adapter"
              /\ task'[t].prov = "gemini")]_vars

----------------------------------------------------------------------------
(* Status against the chain (SpecStatus)                                   *)

\* C28: the preferredService that GET /api/status of server/routes.ts reports
\* is the tier that serves an analyze request under the same provider
\* health.
C28_PreferredIsServingTier ==
    (/\ dOp = "status" /\ dIn.rev = "routes"
     /\ Len(dOut) > 0
     /\ lastResponse.valid /\ lastResponse.kind = "analyze")
    => lastResponse.service = dOut[1]

----------------------------------------------------------------------------
(* Text extraction of an upload (SpecUpload)                               *)

\* C29: the text of an upload comes from OpenAI only after the Gemini probe of
\* the extraction stage failed and OpenAI was probed with success and then
\* called; after a valid Gemini probe the route gets the mock text with no
\* request sent and no flag written, tags the extraction "mock", and the
\* response carries the notice whoever served the analysis.
C29_ExtractionTiers ==
    /\ [](\A t \in Tasks :
             task[t].pc = "extractRet" =>
                 /\ task[t].extractedBy = "openai" =>
                       /\ task[t].gProbe = "failed"
                       /\ task[t].extraction = "openai"
                       /\ task[t].aProbes = 1 /\ task[t].aCalls = 1
                 /\ task[t].gProbe = "ok" =>
                       /\ task[t].extractedBy = "adapterMock"
                       /\ task[t].extraction = "mock"
                       /\ task[t].inFlight = {})
    /\ []((lastResponse.kind = "upload" /\ lastResponse.valid
           /\ lastResponse.extraction = "mock") => lastResponse.notice)
    /\ [][\A t \in Tasks :
             (/\ task[t].pc = "probeRet" /\ task[t].ctx = "route"
              /\ task[t].prov = "gemini" /\ task[t].st = "valid"
              /\ task[t].phase = 0
              /\ task'[t] # task[t])
             => (/\ task'[t].pc = "extractRet"
                 /\ task'[t].inFlight = {}
                 /\ isGeminiAvailable' = isGeminiAvailable
                 /\ isOpenAIAvailable' = isOpenAIAvailable)]_vars

\* An upload whose text is the mock document handed out after a valid Gemini
\* probe and whose analysis was served by Gemini: the response has the notice.
C29_Witness ==
    /\ lastResponse.kind = "upload" /\ lastResponse.valid
    /\ lastResponse.extraction = "mock"
    /\ lastResponse.extractedBy = "adapterMock"
    /\ lastResponse.service = "gemini" /\ lastResponse.producer = "gemini"
    /\ lastResponse.notice

\* ---------------------------------------------------------------------------
\* Waitlist: MemStorage.addToWaitlist and POST /api/waitlist.
\* The storage state is kept in dOut as [waitlistEntries, currentWaitlistId],
\* waitlistEntries in the Map's insertion order; dIn holds one record per
\* request handler.
\* ---------------------------------------------------------------------------
MaxWaitlistEntries == 3

WaitlistHandlers == {1, 2}

WaitlistEmails == {"ann@x", "bob@x", "Ann@x"}

\* new MemStorage(): an empty map and currentWaitlistId = 1
MemStorage == [waitlistEntries |-> <<>>, currentWaitlistId |-> 1]

IdleHandler == [pc |-> "idle", email |-> "none", thrown |-> FALSE, status |-> 0, id |-> 0]

\* addToWaitlist without the search for an existing entry
addToWaitlistNoSearch(st, email) ==
    [st |-> [waitlistEntries |-> Append(st.waitlistEntries,
                                        [id |-> st.currentWaitlistId, email |-> email]),
             currentWaitlistId |-> st.currentWaitlistId + 1],
     thrown |-> FALSE, id |-> st.currentWaitlistId]

\* storage.addToWaitlist(data): the body has no await, so it runs as one step
addToWaitlist(st, email) ==
    IF \E i \in 1..Len(st.waitlistEntries) : st.waitlistEntries[i].email = email
    THEN [st |-> st, thrown |-> TRUE, id |-> 0]
    ELSE [st |-> [waitlistEntries |-> Append(st.waitlistEntries,
                                             [id |-> st.currentWaitlistId, email |-> email]),
                  currentWaitlistId |-> st.currentWaitlistId + 1],
          thrown |-> FALSE, id |-> st.currentWaitlistId]

WaitlistInit ==
    /\ isGeminiAvailable = TRUE
    /\ isOpenAIAvailable = TRUE
    /\ geminiKey = TRUE
    /\ openaiKey = TRUE
    /\ task = [t \in Tasks |-> IdleTask]
    /\ lastResponse = NoResponse
    /\ downByCall = FALSE
    /\ dOp = "waitlist"
    /\ dIn = [h \in WaitlistHandlers |-> IdleHandler]
    /\ dOut = MemStorage

\* POST /api/waitlist with a body the schema rejects: 400, storage not called
PostWaitlistInvalid(h) ==
    /\ dOp = "waitlist"
    /\ dIn[h].pc = "idle"
    /\ dIn' = [dIn EXCEPT ![h] = [IdleHandler EXCEPT !.status = 400]]
    /\ UNCHANGED <<dOp, dOut>>
    /\ UNCHANGED orchVars

\* POST /api/waitlist with a valid body: the handler calls addToWaitlist and
\* is suspended on the returned promise
PostWaitlist(h) ==
    /\ dOp = "waitlist"
    /\ dIn[h].pc = "idle"
    /\ dOut.currentWaitlistId <= MaxWaitlistEntries
    /\ \E email \in WaitlistEmails :
          LET r == addToWaitlist(dOut, email) IN
          /\ dOut' = r.st
          /\ dIn' = [dIn EXCEPT ![h] = [pc |-> "await", email |-> email,
                                        thrown |-> r.thrown, status |-> 0,
                                        id |-> r.id]]
    /\ UNCHANGED dOp
    /\ UNCHANGED orchVars

\* the handler resumes: 201 with the entry, or 409 from the catch block
\* (the thrown message contains "unique")
WaitlistRespond(h) ==
    /\ dOp = "waitlist"
    /\ dIn[h].pc = "await"
    /\ dIn' = [dIn EXCEPT ![h].pc = "idle",
                          ![h].status = IF dIn[h].thrown THEN 409 ELSE 201]
    /\ UNCHANGED <<dOp, dOut>>
    /\ UNCHANGED orchVars

WaitlistNext ==
    \E h \in WaitlistHandlers :
        \/ PostWaitlistInvalid(h)
        \/ PostWaitlist(h)
        \/ WaitlistRespond(h)

SpecWaitlist == WaitlistInit /\ [][WaitlistNext]_vars

\* C30: after any interleaving of addToWaitlist calls no two stored entries
\* share an email, ids are pairwise distinct and were assigned in increasing
\* order, and a call rejected as a duplicate leaves the entries and the id
\* counter unchanged.
C30_WaitlistUniqueAndMonotonic ==
    /\ [](dOp = "waitlist" =>
            /\ \A i, j \in 1..Len(dOut.waitlistEntries) :
                  i < j => /\ dOut.waitlistEntries[i].email # dOut.waitlistEntries[j].email
                           /\ dOut.waitlistEntries[i].id < dOut.waitlistEntries[j].id
            /\ \A i \in 1..Len(dOut.waitlistEntries) :
                  dOut.waitlistEntries[i].id < dOut.currentWaitlistId)
    /\ [][\A h \in WaitlistHandlers :
              (dIn[h].pc = "idle" /\ dIn'[h].pc = "await" /\ dIn'[h].thrown)
              => dOut' = dOut]_vars

\* C30 witness: two entries are stored, one handler answered 409 for a
\* duplicate and the other was just rejected while suspended.
C30_Witness ==
    /\ dOp = "waitlist"
    /\ Len(dOut.waitlistEntries) >= 2
    /\ \E h, g \in WaitlistHandlers :
          /\ h # g
          /\ dIn[h].pc = "idle" /\ dIn[h].status = 409
          /\ dIn[g].pc = "await" /\ dIn[g].thrown

====
